---- MODULE Spec2Model ----
(***************************************************************************)
(* Model of find_missing_cruises.py: reconciliation of the R2R cruise      *)
(* registry against the GDC catalog (cruise_info, pi_info, port_info).     *)
(*                                                                         *)
(* Text is modelled as sequences of one-character strings, so that the     *)
(* normalisers (parse_pi_name, normalize_institution, normalize_port_name) *)
(* are computed the way the Python code computes them.  A Python dict is a *)
(* sequence of records with a "key" field, in insertion order.             *)
(***************************************************************************)
EXTENDS Integers, Sequences, FiniteSets, TLC

(***************************************************************************)
(* Python str primitives                                                   *)
(***************************************************************************)
UPPERCASE == <<"A","B","C","D","E","F","G","H","I","J","K","L","M",
               "N","O","P","Q","R","S","T","U","V","W","X","Y","Z">>
LOWERCASE == <<"a","b","c","d","e","f","g","h","i","j","k","l","m",
               "n","o","p","q","r","s","t","u","v","w","x","y","z">>

\* position of character c in the sequence s, 0 when absent (str.find + 1)
find(s, c) ==
    IF \E i \in 1..Len(s) : s[i] = c
    THEN CHOOSE i \in 1..Len(s) : s[i] = c /\ \A j \in 1..(i-1) : s[j] # c
    ELSE 0

lowerChar(c) == IF find(UPPERCASE, c) = 0 THEN c ELSE LOWERCASE[find(UPPERCASE, c)]
upperChar(c) == IF find(LOWERCASE, c) = 0 THEN c ELSE UPPERCASE[find(LOWERCASE, c)]

\* str.lower(), str.upper()
lower(s) == [i \in 1..Len(s) |-> lowerChar(s[i])]
upper(s) == [i \in 1..Len(s) |-> upperChar(s[i])]

\* s[lo-1:hi] in Python terms
slice(s, lo, hi) == IF lo > hi THEN <<>> ELSE SubSeq(s, lo, hi)

\* str.lstrip() / str.rstrip() / str.strip(): whitespace at the ends is removed
lstrip(s) ==
    IF \A i \in 1..Len(s) : s[i] = " " THEN <<>>
    ELSE slice(s, CHOOSE i \in 1..Len(s) : s[i] # " " /\ \A j \in 1..(i-1) : s[j] = " ", Len(s))
rstripChar(s, c) ==
    IF \A i \in 1..Len(s) : s[i] = c THEN <<>>
    ELSE slice(s, 1, CHOOSE i \in 1..Len(s) : s[i] # c /\ \A j \in (i+1)..Len(s) : s[j] = c)
strip(s) == lstrip(rstripChar(s, " "))

\* str.startswith(p)
startswith(s, p) == Len(s) >= Len(p) /\ slice(s, 1, Len(p)) = p

\* str.split(): the maximal runs of non-blank characters, in order
RECURSIVE splitWords(_)
splitWords(s) ==
    LET t == lstrip(s)
    IN  IF t = <<>> THEN <<>>
        ELSE LET e == IF find(t, " ") = 0 THEN Len(t) ELSE find(t, " ") - 1
             IN  <<slice(t, 1, e)>> \o splitWords(slice(t, e + 1, Len(t)))

\* ' '.join(words)
RECURSIVE joinWords(_)
joinWords(ws) ==
    IF ws = <<>> THEN <<>>
    ELSE IF Len(ws) = 1 THEN ws[1]
    ELSE ws[1] \o <<" ">> \o joinWords(Tail(ws))

\* str.replace(c, r) for a one-character c
RECURSIVE replaceChar(_, _, _)
replaceChar(s, c, r) ==
    IF s = <<>> THEN <<>>
    ELSE (IF Head(s) = c THEN r ELSE <<Head(s)>>) \o replaceChar(Tail(s), c, r)

\* index of the last occurrence of ", " in s (str.rsplit(', ', 1)), 0 when absent
rfindCommaSpace(s) ==
    LET hits == {i \in 1..(Len(s) - 1) : s[i] = "," /\ s[i+1] = " "}
    IN  IF hits = {} THEN 0 ELSE CHOOSE i \in hits : \A j \in hits : j <= i

(***************************************************************************)
(* The normalisers                                                         *)
(***************************************************************************)
\* parse_pi_name that skips a leading initial and keeps every word after it
parse_pi_name_keepsRestAfterInitial(full_name) ==
    IF full_name = <<>> \/ find(full_name, ",") = 0
    THEN [original |-> full_name, normalized |-> full_name,
          first |-> <<>>, last |-> full_name]
    ELSE
      LET k          == find(full_name, ",")
          last_name  == strip(slice(full_name, 1, k - 1))
          first_part == strip(slice(full_name, k + 1, Len(full_name)))
          words      == splitWords(first_part)
      IN  IF words = <<>>
          THEN [original |-> full_name, normalized |-> last_name,
                first |-> <<>>, last |-> last_name]
          ELSE IF Len(words) >= 2 /\ Len(rstripChar(words[1], ".")) = 1
          THEN [original |-> full_name,
                normalized |-> last_name \o <<",", " ">> \o joinWords(Tail(words)),
                first |-> words[2], last |-> last_name]
          ELSE IF Len(words) = 1
          THEN [original |-> full_name,
                normalized |-> last_name \o <<",", " ">> \o words[1],
                first |-> words[1], last |-> last_name]
          ELSE IF Len(rstripChar(words[2], ".")) <= 2
          THEN [original |-> full_name,
                normalized |-> last_name \o <<",", " ">> \o words[1],
                first |-> words[1], last |-> last_name]
          ELSE [original |-> full_name,
                normalized |-> last_name \o <<",", " ">> \o words[1] \o <<" ">> \o words[2],
                first |-> words[1], last |-> last_name]

\* parse_pi_name that measures the words with their trailing periods
parse_pi_name_countsPeriods(full_name) ==
    IF full_name = <<>> \/ find(full_name, ",") = 0
    THEN [original |-> full_name, normalized |-> full_name,
          first |-> <<>>, last |-> full_name]
    ELSE
      LET k          == find(full_name, ",")
          last_name  == strip(slice(full_name, 1, k - 1))
          first_part == strip(slice(full_name, k + 1, Len(full_name)))
          words      == splitWords(first_part)
      IN  IF words = <<>>
          THEN [original |-> full_name, normalized |-> last_name,
                first |-> <<>>, last |-> last_name]
          ELSE IF Len(words) >= 2 /\ Len(words[1]) = 1
          THEN [original |-> full_name,
                normalized |-> last_name \o <<",", " ">> \o words[2],
                first |-> words[2], last |-> last_name]
          ELSE IF Len(words) = 1
          THEN [original |-> full_name,
                normalized |-> last_name \o <<",", " ">> \o words[1],
                first |-> words[1], last |-> last_name]
          ELSE IF Len(words[2]) <= 2
          THEN [original |-> full_name,
                normalized |-> last_name \o <<",", " ">> \o words[1],
                first |-> words[1], last |-> last_name]
          ELSE [original |-> full_name,
                normalized |-> last_name \o <<",", " ">> \o words[1] \o <<" ">> \o words[2],
                first |-> words[1], last |-> last_name]

\* parse_pi_name(full_name) -> (original, normalized, first_only, last)
parse_pi_name(full_name) ==
    IF full_name = <<>> \/ find(full_name, ",") = 0
    THEN [original |-> full_name, normalized |-> full_name,
          first |-> <<>>, last |-> full_name]
    ELSE
      LET k          == find(full_name, ",")
          last_name  == strip(slice(full_name, 1, k - 1))
          first_part == strip(slice(full_name, k + 1, Len(full_name)))
          words      == splitWords(first_part)
      IN  IF words = <<>>
          THEN [original |-> full_name, normalized |-> last_name,
                first |-> <<>>, last |-> last_name]
          ELSE IF Len(words) >= 2 /\ Len(rstripChar(words[1], ".")) = 1
          THEN [original |-> full_name,
                normalized |-> last_name \o <<",", " ">> \o words[2],
                first |-> words[2], last |-> last_name]
          ELSE IF Len(words) = 1
          THEN [original |-> full_name,
                normalized |-> last_name \o <<",", " ">> \o words[1],
                first |-> words[1], last |-> last_name]
          ELSE IF Len(rstripChar(words[2], ".")) <= 2
          THEN [original |-> full_name,
                normalized |-> last_name \o <<",", " ">> \o words[1],
                first |-> words[1], last |-> last_name]
          ELSE [original |-> full_name,
                normalized |-> last_name \o <<",", " ">> \o words[1] \o <<" ">> \o words[2],
                first |-> words[1], last |-> last_name]

\* re.sub(r'[,.-]', ' ', n)
subPunct(s) == [i \in 1..Len(s) |-> IF s[i] \in {",", ".", "-"} THEN " " ELSE s[i]]

\* normalize_institution that leaves "&" to the punctuation-free text
normalize_institution_keepsAmpersand(name) ==
    IF name = <<>> THEN <<>>
    ELSE joinWords(splitWords(subPunct(lower(name))))

\* normalize_institution(name)
normalize_institution(name) ==
    IF name = <<>> THEN <<>>
    ELSE joinWords(splitWords(subPunct(
            replaceChar(lower(name), "&", <<" ", "a", "n", "d", " ">>))))

(***************************************************************************)
(* Python dict: a sequence of [key, val] records in insertion order        *)
(***************************************************************************)
dictKeys(d)   == {d[i].key : i \in DOMAIN d}
dictHas(d, k) == \E i \in DOMAIN d : d[i].key = k
dictGet(d, k) == d[CHOOSE i \in DOMAIN d : d[i].key = k].val
\* d[k] = v : a new key is appended, an old key keeps its position
dictPut(d, k, v) ==
    IF dictHas(d, k)
    THEN [i \in DOMAIN d |-> IF d[i].key = k THEN [key |-> k, val |-> v] ELSE d[i]]
    ELSE Append(d, [key |-> k, val |-> v])
\* d.get(k, default)
dictGetOr(d, k, default) == IF dictHas(d, k) THEN dictGet(d, k) ELSE default

\* the empty vocabulary records that .get(..., {}) followed by .get(field, '') yields
NoPort   == [latitude |-> 0, longitude |-> 0, r2r_id |-> 0, country_id3 |-> <<>>]
NoPerson == [org_shortname |-> <<>>, r2r_id |-> 0]
NoOrg    == [name |-> <<>>, r2r_id |-> 0]

normalize_port_name(port_name, vocab) ==
    IF port_name = <<>> THEN port_name
    ELSE LET country == dictGetOr(vocab, port_name, NoPort).country_id3
         IN  IF country # <<>> THEN port_name \o <<",", " ">> \o upper(country)
             ELSE port_name

(***************************************************************************)
(* Program constants                                                       *)
(***************************************************************************)
MAX_RETRIES == 3

\* VESSELS: short name -> full name, in the order the dict literal gives
VESSELS == << [key |-> "Roger Revelle",        val |-> "R/V ROGER REVELLE"],
              [key |-> "Robert Gordon Sproul", val |-> "R/V ROBERT GORDON SPROUL"],
              [key |-> "Sally Ride",           val |-> "R/V SALLY RIDE"] >>
VesselShorts == dictKeys(VESSELS)
VesselFulls  == {VESSELS[i].val : i \in DOMAIN VESSELS}
VocabTypes   == {"port", "person", "organization"}
Tasks        == VesselShorts \cup VocabTypes

(***************************************************************************)
(* The bounded environment: what the R2R API serves, what the catalog      *)
(* holds before the run, what the operator may type                        *)
(***************************************************************************)
\* how many of the six endpoints may misbehave in one run, and how many
\* database statements of one run may fail
MaxFlaky    == 1
MaxDbFaults == 1

Craig  == <<"S", ",", " ", "C", "r">>
CraigR == <<"S", ",", " ", "C", "r", " ", "R", ".">>
CraigC == <<"S", ",", " ", "C", ".">>
CraigX == <<"S", ",", " ", "C", "r", " ", "(", "x", ")">>
Sio    == <<"S", "i", "o">>
SIOAcronym == <<"S", "I", "O">>
Who    == <<"W", "h", "o">>
LJ     == <<"L", "J">>
Ho     == <<"H", "o">>
LJUSA  == <<"L", "J", ",", " ", "U", "S", "A">>
HoHI   == <<"H", "o", ",", " ", "H", "I">>

\* the vocabulary endpoints' data, already projected through field_map
PortVocabData ==
    << [key |-> LJ, val |-> [latitude |-> 32, longitude |-> 117, r2r_id |-> 5,
                             country_id3 |-> <<"u", "s", "a">>]],
       [key |-> Ho, val |-> [latitude |-> 19, longitude |-> 155, r2r_id |-> 6,
                             country_id3 |-> <<>>]],
       [key |-> HoHI, val |-> [latitude |-> 21, longitude |-> 157, r2r_id |-> 8,
                               country_id3 |-> <<>>]],
       [key |-> <<>>, val |-> NoPort] >>
PersonVocabData ==
    << [key |-> Craig, val |-> [org_shortname |-> SIOAcronym, r2r_id |-> 7]] >>
OrgVocabData ==
    << [key |-> SIOAcronym, val |-> [name |-> Sio, r2r_id |-> 3]] >>
VocabData(t) ==
    CASE t = "port" -> PortVocabData
      [] t = "person" -> PersonVocabData
      [] t = "organization" -> OrgVocabData

item(v, id, pi, dp, ap) ==
    [vessel_name |-> v, cruise_id |-> id, chief_scientist |-> pi,
     depart_port |-> dp, arrive_port |-> ap]

\* what GET /api/cruise?vessel=<short> serves, per vessel
Registries ==
    { \* two spellings of one person on two cruises with distinct ids
      [v \in VesselShorts |->
         CASE v = "Roger Revelle" -> <<item(v, "c1", CraigR, LJ, Ho)>>
           [] v = "Sally Ride"    -> <<item(v, "c2", Craig, LJ, <<>>)>>
           [] OTHER               -> <<>>],
      \* two vessels using the same cruise_id; a row of another vessel in the answer
      [v \in VesselShorts |->
         CASE v = "Roger Revelle" -> <<item(v, "c1", Craig, LJ, LJ)>>
           [] v = "Sally Ride"    -> <<item(v, "c1", <<>>, <<>>, Ho),
                                       item("Roger Revelle", "c2", Craig, Ho, Ho)>>
           [] OTHER               -> <<>>],
      \* a second person whose name is the variant "S, Cr (x)" of the first
      [v \in VesselShorts |->
         CASE v = "Roger Revelle" -> <<item(v, "c1", Craig, LJ, Ho),
                                       item(v, "c3", CraigX, <<>>, <<>>)>>
           [] OTHER               -> <<>>],
      \* a port whose upstream name holds a comma and has no country
      [v \in VesselShorts |->
         CASE v = "Sally Ride" -> <<item(v, "c4", <<>>, HoHI, LJ)>>
           [] OTHER            -> <<>>],
      \* nothing upstream
      [v \in VesselShorts |-> <<>>] }

pi_row(name, inst, r2r) ==
    [pi_name |-> name, pi_first_name |-> parse_pi_name(name).first,
     pi_last_name |-> parse_pi_name(name).last, pi_institution |-> inst,
     pi_r2r_id |-> r2r, pi_r2r_institution |-> 0]
port_row(name, r2r, lat, lon, country) ==
    [port_name |-> name, r2r_id |-> r2r, latitude |-> lat, longitude |-> lon,
     port_country |-> country]
cruise_row(id, vessel, pi_id, pi_name, ps_id, pe_id, ps, pe) ==
    [cruise_id |-> id, vessel |-> vessel, pi_db_id |-> pi_id, pi_name |-> pi_name,
     port_start_db_id |-> ps_id, port_end_db_id |-> pe_id,
     port_start |-> ps, port_end |-> pe]

UnitedStates == <<"U", "n", "i", "t", "e", "d">>
OldCruise(id, vessel) == cruise_row(id, vessel, 0, <<>>, 0, 0, <<>>, <<>>)

\* the catalog before the run; a row's id is its position in its table
Catalogs ==
    { [pi_info |-> <<>>, port_info |-> <<>>, cruise_info |-> <<>>],
      [pi_info |-> <<pi_row(Craig, Sio, 7)>>,
       port_info |-> <<port_row(LJUSA, 5, 32, 117, UnitedStates)>>,
       cruise_info |-> <<OldCruise("c1", "R/V ROGER REVELLE")>>],
      [pi_info |-> <<pi_row(Craig, Who, 0)>>,
       port_info |-> <<>>,
       cruise_info |-> <<OldCruise("c1", "R/V SALLY RIDE")>>],
      [pi_info |-> <<pi_row(CraigC, Who, 7)>>,
       port_info |-> <<port_row(LJUSA, 5, 32, 117, UnitedStates)>>,
       cruise_info |-> <<>>],
      [pi_info |-> <<pi_row(CraigR, Sio, 0), pi_row(Craig, Who, 0)>>,
       port_info |-> <<>>,
       cruise_info |-> <<>>],
      [pi_info |-> <<pi_row(Craig, Sio, 7)>>,
       port_info |-> <<>>,
       cruise_info |-> <<OldCruise("c1", "R/V ROGER REVELLE"),
                         OldCruise("c2", "R/V SALLY RIDE"),
                         OldCruise("c1", "R/V SALLY RIDE")>>] }

\* the tables before main() has connected: nothing is known of them
NotConnected == [pi_info |-> <<>>, port_info |-> <<>>, cruise_info |-> <<>>]

\* what the operator may type at a conflict prompt
Answers == { <<>>, <<"x">>, <<" ", "x", " ">>, <<"m", ".", "S", "i", "o">> }

(***************************************************************************)
(* State                                                                   *)
(***************************************************************************)
VARIABLES
    r2r,              \* what the R2R cruise endpoint serves in this run
    flaky,            \* the endpoints that misbehave in this run
    db,               \* committed content of the catalog tables
    db0,              \* the catalog as it was when the run connected to it
    task,             \* the six futures of phase 1
    dbFaults,         \* failed database statements met so far
    pc,               \* position of main()
    interrupted,      \* a KeyboardInterrupt was swallowed during wait()
    ci,               \* index of the future whose result() main is waiting for
    all_r2r_cruises, port_vocab, person_vocab, org_vocab,
    \* the locals of phase 2, under the names main() gives them
    gdc_by_vessel, gdc_institutions, country_map,
    missing_cruises_map, all_pis, all_ports,
    all_gdc_pis, gdc_r2r_ids, gdc_name_inst, gdc_names, gdc_pi_map, gdc_pi_inst,
    existing_pis, existing_ports, missing_pis, missing_ports,
    pi_name_remap, first_conflict, pi_values,
    pi_i,             \* position of the loop of line 404 in missing_pis
    pi_id_map, pi_id_to_name, port_id_map,
    summary,          \* the counts printed by line 545
    log,              \* database statements and operator prompts, in order
    \* a normaliser called on its own, outside a run of main()
    call,             \* the function called and its arguments
    returned          \* the values returned so far, in order

snapvars  == <<gdc_by_vessel, gdc_institutions, country_map,
               missing_cruises_map, all_pis, all_ports>>
matchvars == <<all_gdc_pis, gdc_r2r_ids, gdc_name_inst, gdc_pi_map, gdc_pi_inst,
               existing_pis, existing_ports, missing_pis, missing_ports>>
loopvars  == <<gdc_names, pi_name_remap, first_conflict, pi_values, pi_i>>
fkvars    == <<pi_id_map, pi_id_to_name, port_id_map>>
phase2vars == <<snapvars, matchvars, loopvars, fkvars, summary>>
fetched   == <<all_r2r_cruises, port_vocab, person_vocab, org_vocab>>
callvars  == <<call, returned>>

Pending == [kind |-> "pending", val |-> <<>>]
Dict(d) == [kind |-> "dict", val |-> d]
None    == [kind |-> "none", val |-> <<>>]

(***************************************************************************)
(* Phase 1: the fetch tasks                                                *)
(***************************************************************************)
\* lines 113-129: the rows of the answer whose vessel_name is the vessel asked for
RECURSIVE buildCruises(_, _, _)
buildCruises(data, vessel_short, cruises) ==
    IF data = <<>> THEN cruises
    ELSE LET c == Head(data)
         IN  buildCruises(Tail(data), vessel_short,
               IF c.vessel_name = vessel_short
               THEN dictPut(cruises, c.cruise_id,
                            [chief_scientist |-> c.chief_scientist,
                             depart_port |-> c.depart_port,
                             arrive_port |-> c.arrive_port])
               ELSE cruises)

\* lines 225-229: the vocabulary items with a non-empty key
RECURSIVE buildLookup(_, _)
buildLookup(data, lookup) ==
    IF data = <<>> THEN lookup
    ELSE buildLookup(Tail(data),
            IF Head(data).key # <<>>
            THEN dictPut(lookup, Head(data).key, Head(data).val)
            ELSE lookup)

CanFail(t) == t \in flaky

\* the function returns: its locals are gone, the future holds the result
finish(t, res) ==
    task' = [task EXCEPT ![t] = [attempt |-> 0, waits |-> <<>>,
                                 status |-> "done", result |-> res]]

\* lines 134-140, 142-148, 234-240: sleep 2 ** attempt and try again, or give up
retryOrEmpty(t) ==
    IF task[t].attempt < 2
    THEN task' = [task EXCEPT ![t] = [@ EXCEPT !.attempt = @ + 1,
                                          !.waits = Append(@, 2 ^ task[t].attempt)]]
    ELSE finish(t, Dict(<<>>))

fetchFrame == UNCHANGED <<r2r, flaky, db, db0, dbFaults, pc, interrupted, ci,
                          fetched, phase2vars, log, callvars>>

\* get_r2r_cruises: status 200 and a 'data' member
CruisesOk(v) ==
    /\ task[v].status = "running"
    /\ finish(v, Dict(buildCruises(r2r[v], v, <<>>)))
    /\ fetchFrame

\* get_r2r_cruises: status 200, no 'data' member (line 132)
CruisesNoData(v) ==
    /\ task[v].status = "running" /\ CanFail(v)
    /\ finish(v, Dict(<<>>))
    /\ fetchFrame

\* get_r2r_cruises: a status other than 200; the loop body ends without
\* sleeping, and after the last attempt the function falls off its end
CruisesNon200(v) ==
    /\ task[v].status = "running" /\ CanFail(v)
    /\ IF task[v].attempt + 1 < MAX_RETRIES
       THEN task' = [task EXCEPT ![v] = [@ EXCEPT !.attempt = @ + 1]]
       ELSE finish(v, None)
    /\ fetchFrame

\* get_r2r_cruises: requests.exceptions.Timeout (lines 133-140)
CruisesTimeout(v) ==
    /\ task[v].status = "running" /\ CanFail(v)
    /\ retryOrEmpty(v)
    /\ fetchFrame

\* get_r2r_cruises: any other exception (lines 141-148)
CruisesError(v) ==
    /\ task[v].status = "running" /\ CanFail(v)
    /\ retryOrEmpty(v)
    /\ fetchFrame

\* get_r2r_vocabulary: status 200 and a 'data' member
VocabOk(t) ==
    /\ task[t].status = "running"
    /\ finish(t, Dict(buildLookup(VocabData(t), <<>>)))
    /\ fetchFrame

\* get_r2r_vocabulary: status 200 without a 'data' member: line 232 returns {}
VocabNoData(t) ==
    /\ task[t].status = "running" /\ CanFail(t)
    /\ finish(t, Dict(<<>>))
    /\ fetchFrame

\* get_r2r_vocabulary: a status other than 200: line 232 returns {} at once,
\* whatever the attempt
VocabNon200(t) ==
    /\ task[t].status = "running" /\ CanFail(t)
    /\ finish(t, Dict(<<>>))
    /\ fetchFrame

\* get_r2r_vocabulary: an exception, a timeout included (lines 233-240)
VocabError(t) ==
    /\ task[t].status = "running" /\ CanFail(t)
    /\ retryOrEmpty(t)
    /\ fetchFrame

(***************************************************************************)
(* Phase 1: main() joins the tasks and merges their results                *)
(***************************************************************************)
\* the order in which main() asks the futures for their results (lines 264-268)
Futures == <<"port", "person", "organization">> \o [i \in DOMAIN VESSELS |-> VESSELS[i].key]

AllDone == \A t \in Tasks : task[t].status = "done"

mainFrame == UNCHANGED <<r2r, db, db0, dbFaults, task, phase2vars, log, callvars>>

\* wait(...) returns once every future is done (line 260)
WaitReturns ==
    /\ pc = "wait" /\ AllDone
    /\ pc' = "collect"
    /\ UNCHANGED <<flaky, interrupted, ci, all_r2r_cruises, port_vocab, person_vocab,
                   org_vocab>>
    /\ mainFrame

\* KeyboardInterrupt while waiting: caught and dropped (lines 261-262)
Interrupt ==
    /\ pc = "wait" /\ ~interrupted
    /\ pc' = "collect" /\ interrupted' = TRUE
    /\ UNCHANGED <<flaky, ci, all_r2r_cruises, port_vocab, person_vocab, org_vocab>>
    /\ mainFrame

\* line 269, for every cruise of one vessel's result
RECURSIVE mergeVessel(_, _, _)
mergeVessel(all, cruises, full) ==
    IF cruises = <<>> THEN all
    ELSE mergeVessel(
            dictPut(all, Head(cruises).key,
                    [chief_scientist |-> Head(cruises).val.chief_scientist,
                     depart_port |-> Head(cruises).val.depart_port,
                     arrive_port |-> Head(cruises).val.arrive_port,
                     vessel |-> full]),
            Tail(cruises), full)

\* after the with block: lines 271-280
afterMerge(all) == IF all = <<>> THEN "done_no_cruises" ELSE "connect"

\* future.result() hands out a result without waiting for the task
resultReady_noBlock(f) == TRUE

\* future.result() returns only when the task is done
resultReady(f) == task[f].status = "done"

\* future.result() of the next future in line: it blocks until that task is
\* done; a vessel result of None has no .items() and main() raises.  With the
\* last result collected no request is made any more, and which endpoints
\* were unreliable is forgotten.
CollectResult ==
    /\ pc = "collect" /\ ci <= Len(Futures)
    /\ resultReady(Futures[ci])
    /\ LET f   == Futures[ci]
           res == task[f].result
       IN  IF f \in VocabTypes
           THEN /\ port_vocab'   = IF f = "port" THEN res.val ELSE port_vocab
                /\ person_vocab' = IF f = "person" THEN res.val ELSE person_vocab
                /\ org_vocab'    = IF f = "organization" THEN res.val ELSE org_vocab
                /\ ci' = ci + 1
                /\ UNCHANGED <<pc, flaky, interrupted, all_r2r_cruises>>
           ELSE IF res.kind = "none"
           THEN /\ pc' = "raised_fetch"
                /\ flaky' = {}
                /\ UNCHANGED <<ci, interrupted, all_r2r_cruises, port_vocab, person_vocab,
                               org_vocab>>
           ELSE /\ all_r2r_cruises' = mergeVessel(all_r2r_cruises, res.val, dictGet(VESSELS, f))
                /\ ci' = ci + 1
                /\ pc' = IF ci = Len(Futures) THEN afterMerge(all_r2r_cruises') ELSE pc
                /\ flaky' = IF ci = Len(Futures) THEN {} ELSE flaky
                /\ UNCHANGED <<interrupted, port_vocab, person_vocab, org_vocab>>
    /\ mainFrame

(***************************************************************************)
(* DatabaseConnection.query (lines 69-94)                                  *)
(***************************************************************************)
\* whether the statement about to be issued may fail for a reason of its own
\* (connection lost, constraint, ...)
MayFail == IF dbFaults < MaxDbFaults THEN BOOLEAN ELSE {FALSE}
countFault(fails) == dbFaults' = dbFaults + (IF fails THEN 1 ELSE 0)

\* a SELECT: the rows fetched, or [] after the rollback of a failed one
querySelect(rows, fails) == IF fails THEN <<>> ELSE rows

\* the failed statement's changes survive: no rollback
queryCommitted_noRollback(newdb, fails) == newdb
\* the error of a failed statement is swallowed, as it is for a SELECT
queryRaises_swallowed(fails) == FALSE

\* any other statement: commit (line 83), or rollback and re-raise (lines 85-91)
queryCommitted(newdb, fails) == IF fails THEN db ELSE newdb
queryRaises(fails) == fails

logged(op, ok, arg) == log' = Append(log, [op |-> op, ok |-> ok, arg |-> arg])

(***************************************************************************)
(* Phase 2: the catalog snapshot (lines 280-349)                           *)
(***************************************************************************)
p2Frame == UNCHANGED <<r2r, flaky, db0, task, interrupted, ci, fetched, callvars>>

\* DatabaseConnection.__enter__ (line 280): the catalog is seen for the first
\* time; nothing before this point reads or writes it
Connect ==
    /\ pc = "connect"
    /\ \E catalog \in Catalogs : db' = catalog /\ db0' = catalog
    /\ pc' = "q_cruises"
    /\ UNCHANGED <<r2r, flaky, task, interrupted, ci, fetched, dbFaults, phase2vars, log,
                   callvars>>

\* lines 281-285
SelectCruises ==
    /\ pc = "q_cruises"
    /\ \E fails \in MayFail :
         LET all_gdc_result ==
                 querySelect(SelectSeq(db.cruise_info, LAMBDA r : r.vessel \in VesselFulls),
                             fails)
         IN  /\ gdc_by_vessel' =
                   [v \in VesselFulls |->
                      {all_gdc_result[i].cruise_id :
                         i \in {j \in DOMAIN all_gdc_result : all_gdc_result[j].vessel = v}}]
             /\ countFault(fails)
             /\ logged("SELECT cruise_info", ~fails, <<>>)
    /\ pc' = "q_inst"
    /\ UNCHANGED <<db, gdc_institutions, country_map, missing_cruises_map, all_pis,
                   all_ports, matchvars, loopvars, fkvars, summary>>
    /\ p2Frame

\* SELECT DISTINCT pi_institution: each value once, in table order
RECURSIVE distinctInstitutions(_, _)
distinctInstitutions(rows, seen) ==
    IF rows = <<>> THEN seen
    ELSE distinctInstitutions(Tail(rows),
            IF \E i \in DOMAIN seen : seen[i] = Head(rows).pi_institution
            THEN seen ELSE Append(seen, Head(rows).pi_institution))

\* lines 289-294
RECURSIVE buildInstitutions(_, _)
buildInstitutions(inst_results, acc) ==
    IF inst_results = <<>> THEN acc
    ELSE LET inst == Head(inst_results)
             norm == normalize_institution(inst)
         IN  buildInstitutions(Tail(inst_results),
                IF inst # <<>> /\ ~dictHas(acc, norm) THEN dictPut(acc, norm, inst) ELSE acc)

\* lines 287-294
SelectInstitutions ==
    /\ pc = "q_inst"
    /\ \E fails \in MayFail :
         /\ gdc_institutions' =
               buildInstitutions(querySelect(distinctInstitutions(db.pi_info, <<>>), fails), <<>>)
         /\ countFault(fails)
         /\ logged("SELECT pi_institution", ~fails, <<>>)
    /\ pc' = "q_countries"
    /\ UNCHANGED <<db, gdc_by_vessel, country_map, missing_cruises_map, all_pis,
                   all_ports, matchvars, loopvars, fkvars, summary>>
    /\ p2Frame

\* lines 300-308: per country code, how often each country name goes with it
RECURSIVE countCountries(_, _)
countCountries(port_results, country_counts) ==
    IF port_results = <<>> THEN country_counts
    ELSE LET port_name    == Head(port_results).port_name
             port_country == Head(port_results).port_country
             k            == rfindCommaSpace(port_name)
             code         == lower(slice(port_name, k + 2, Len(port_name)))
             names        == dictGetOr(country_counts, code, <<>>)
         IN  countCountries(Tail(port_results),
                IF k > 0 /\ Len(port_name) - (k + 1) <= 4
                THEN dictPut(country_counts, code,
                             dictPut(names, port_country,
                                     dictGetOr(names, port_country, 0) + 1))
                ELSE country_counts)

\* max(names, key=names.get): the first key that has the greatest count
maxKey(names) ==
    names[CHOOSE i \in DOMAIN names :
            /\ \A j \in DOMAIN names : names[j].val <= names[i].val
            /\ \A j \in 1..(i-1) : names[j].val < names[i].val].key

\* lines 309-310
buildCountryMap(country_counts) ==
    [i \in DOMAIN country_counts |->
       [key |-> country_counts[i].key, val |-> maxKey(country_counts[i].val)]]

\* lines 325-342: the record of one chief scientist
piRecord(chief_scientist, persons, orgs, institutions) ==
    LET parsed      == parse_pi_name(chief_scientist)
        person_data == IF dictHas(persons, parsed.original)
                       THEN dictGet(persons, parsed.original)
                       ELSE dictGetOr(persons, parsed.normalized, NoPerson)
        org_data    == dictGetOr(orgs, person_data.org_shortname, NoOrg)
        r2r_inst    == org_data.name
        norm_inst   == normalize_institution(r2r_inst)
    IN  [original |-> parsed.original, normalized |-> parsed.normalized,
         first |-> parsed.first, last |-> parsed.last,
         institution |-> dictGetOr(institutions, norm_inst, r2r_inst),
         r2r_id |-> person_data.r2r_id,
         r2r_institution |-> org_data.r2r_id]

\* line 321: the cruise is missing when its id is not among the catalog ids
\* of the vessel it is recorded under
isMissing(cruise_id, vessel, by_vessel) == cruise_id \notin by_vessel[vessel]

\* lines 317-349: acc is (missing_cruises_map, all_pis, all_ports)
RECURSIVE collectMissing(_, _)
collectMissing(cruises, acc) ==
    IF cruises = <<>> THEN acc
    ELSE LET cruise_id   == Head(cruises).key
             cruise_data == Head(cruises).val
             pi          == cruise_data.chief_scientist
             ports       == {normalize_port_name(q, port_vocab) :
                               q \in {cruise_data.depart_port, cruise_data.arrive_port} \ {<<>>}}
         IN  collectMissing(Tail(cruises),
                IF isMissing(cruise_id, cruise_data.vessel, gdc_by_vessel)
                THEN [missing |-> dictPut(acc.missing, cruise_id, cruise_data),
                      pis     |-> IF pi # <<>> /\ ~dictHas(acc.pis, pi)
                                  THEN dictPut(acc.pis, pi,
                                         piRecord(pi, person_vocab, org_vocab, gdc_institutions))
                                  ELSE acc.pis,
                      ports   |-> acc.ports \cup ports]
                ELSE acc)

\* lines 296-349: the last read of the snapshot, then the pass over the
\* upstream cruises
SelectPortCountries ==
    /\ pc = "q_countries"
    /\ \E fails \in MayFail :
         /\ country_map' = buildCountryMap(countCountries(querySelect(db.port_info, fails), <<>>))
         /\ countFault(fails)
         /\ logged("SELECT port_country", ~fails, <<>>)
    /\ LET found == collectMissing(all_r2r_cruises,
                                   [missing |-> <<>>, pis |-> <<>>, ports |-> {}])
       IN  /\ missing_cruises_map' = found.missing
           /\ all_pis' = found.pis
           /\ all_ports' = found.ports
    /\ pc' = "q_pis"
    /\ UNCHANGED <<db, gdc_by_vessel, gdc_institutions,
                   matchvars, loopvars, fkvars, summary>>
    /\ p2Frame

(***************************************************************************)
(* Phase 2: matching against the snapshot (lines 351-397)                  *)
(***************************************************************************)
\* SELECT id, pi_name, pi_r2r_id, pi_institution FROM pi_info
pisWithId(table) ==
    [i \in DOMAIN table |->
       [id |-> i, pi_name |-> table[i].pi_name, pi_r2r_id |-> table[i].pi_r2r_id,
        pi_institution |-> table[i].pi_institution]]

\* lines 364-369: literal name and normalized name both map to the row's id
RECURSIVE buildPiMap(_, _)
buildPiMap(rows, map) ==
    IF rows = <<>> THEN map
    ELSE buildPiMap(Tail(rows),
            dictPut(dictPut(map, Head(rows).pi_name, Head(rows).id),
                    parse_pi_name(Head(rows).pi_name).normalized, Head(rows).id))

\* line 370
RECURSIVE buildPiInst(_, _)
buildPiInst(rows, map) ==
    IF rows = <<>> THEN map
    ELSE buildPiInst(Tail(rows), dictPut(map, Head(rows).pi_name, Head(rows).pi_institution))

isExistingPi_byIdOnly(pi_data, r2r_ids, name_inst) ==
    pi_data.r2r_id # 0 /\ pi_data.r2r_id \in r2r_ids

\* lines 375-382: EXISTING by external id, or by (normalized name, institution)
isExistingPi(pi_data, r2r_ids, name_inst) ==
    \/ pi_data.r2r_id # 0 /\ pi_data.r2r_id \in r2r_ids
    \/ <<pi_data.normalized, normalize_institution(pi_data.institution)>> \in name_inst

\* lines 353-382
SelectPis ==
    /\ pc = "q_pis"
    /\ IF all_pis # <<>>
       THEN \E fails \in MayFail :
              LET rows == querySelect(pisWithId(db.pi_info), fails)
                  ids  == {rows[i].pi_r2r_id : i \in DOMAIN rows} \ {0}
                  nis  == {<<parse_pi_name(rows[i].pi_name).normalized,
                             normalize_institution(rows[i].pi_institution)>> : i \in DOMAIN rows}
              IN  /\ all_gdc_pis' = rows
                  /\ gdc_r2r_ids' = ids
                  /\ gdc_name_inst' = nis
                  /\ gdc_names' = {rows[i].pi_name : i \in DOMAIN rows}
                  /\ gdc_pi_map' = buildPiMap(rows, <<>>)
                  /\ gdc_pi_inst' = buildPiInst(rows, <<>>)
                  /\ existing_pis' = {all_pis[i].key : i \in
                        {j \in DOMAIN all_pis : isExistingPi(all_pis[j].val, ids, nis)}}
                  /\ countFault(fails)
                  /\ logged("SELECT pi_info", ~fails, <<>>)
       ELSE /\ existing_pis' = {}
            /\ UNCHANGED <<all_gdc_pis, gdc_r2r_ids, gdc_name_inst, gdc_names,
                           gdc_pi_map, gdc_pi_inst, dbFaults, log>>
    /\ pc' = "q_ports"
    /\ UNCHANGED <<db, snapvars, existing_ports, missing_pis, missing_ports,
                   pi_name_remap, first_conflict, pi_values, pi_i, fkvars, summary>>
    /\ p2Frame

\* the ports are inserted only after the ids were re-queried
nextStage_portsAfterRequery(stage) ==
    CASE stage = "pi_loop"    -> "ins_pi"
      [] stage = "ins_pi"     -> "q_pi_ids"
      [] stage = "q_pi_ids"   -> "q_port_ids"
      [] stage = "q_port_ids" -> "ins_port"
      [] stage = "ins_port"   -> "ins_cruise"
      [] stage = "ins_cruise" -> "done_inserted"

\* the order of the statements of lines 445-543: what follows each stage
\* when it has not raised
nextStage(stage) ==
    CASE stage = "pi_loop"    -> "ins_pi"
      [] stage = "ins_pi"     -> "ins_port"
      [] stage = "ins_port"   -> "q_pi_ids"
      [] stage = "q_pi_ids"   -> "q_port_ids"
      [] stage = "q_port_ids" -> "ins_cruise"
      [] stage = "ins_cruise" -> "done_inserted"

\* the early return of lines 395-397 is missing
afterMatching_noEarlyReturn(missing_cruises, pis) ==
    IF pis # <<>> THEN "pi_loop" ELSE nextStage("ins_pi")

\* lines 395-402 and 451: where main() goes once the missing sets are known
afterMatching(missing_cruises, pis) ==
    IF missing_cruises = <<>> THEN "done_no_missing"
    ELSE IF pis # <<>> THEN "pi_loop"
    ELSE nextStage("ins_pi")

\* lines 384-402
SelectExistingPorts ==
    /\ pc = "q_ports"
    /\ IF all_ports # {}
       THEN \E fails \in MayFail :
              LET port_results ==
                      querySelect(SelectSeq(db.port_info, LAMBDA r : r.port_name \in all_ports),
                                  fails)
              IN  /\ existing_ports' = {port_results[i].port_name : i \in DOMAIN port_results}
                  /\ countFault(fails)
                  /\ logged("SELECT port_info", ~fails, <<>>)
       ELSE /\ existing_ports' = {}
            /\ UNCHANGED <<dbFaults, log>>
    /\ missing_pis' = SelectSeq(all_pis, LAMBDA e : e.key \notin existing_pis)
    /\ missing_ports' = all_ports \ existing_ports'
    /\ pc' = afterMatching(missing_cruises_map, missing_pis')
    /\ UNCHANGED <<db, snapvars, all_gdc_pis, gdc_r2r_ids, gdc_name_inst, gdc_pi_map,
                   gdc_pi_inst, existing_pis, loopvars, fkvars, summary>>
    /\ p2Frame

(***************************************************************************)
(* Phase 2: the PI stage (lines 399-448)                                   *)
(***************************************************************************)
\* the row appended to pi_values at line 443 (sql_val: no id is NULL, here 0)
piInsertRow(insert_name, pi_data) ==
    [pi_name |-> insert_name, pi_first_name |-> pi_data.first,
     pi_last_name |-> pi_data.last, pi_institution |-> pi_data.institution,
     pi_r2r_id |-> pi_data.r2r_id, pi_r2r_institution |-> pi_data.r2r_institution]

\* end of one iteration of the loop of line 404
nextPi == /\ pi_i' = pi_i + 1
          /\ pc' = IF pi_i = Len(missing_pis) THEN nextStage("pi_loop") ELSE "pi_loop"

InLoop == pc = "pi_loop" /\ pi_i <= Len(missing_pis)
pi_name == missing_pis[pi_i].key

\* the name is looked up among the PIs classified EXISTING, not among the names
isConflict_amongExisting(name, names) == name \in existing_pis

\* the name is compared by its normalized form
isConflict_byNormalizedName(name, names) ==
    \E n \in names : parse_pi_name(n).normalized = parse_pi_name(name).normalized

\* line 412: the name is one of the names known so far
isConflict(name, names) == name \in names

loopFrame == UNCHANGED <<snapvars, matchvars, fkvars, summary>> /\ p2Frame

\* lines 411-412, 439-443: no name clash, the PI joins the batch
PiNoConflict ==
    /\ InLoop /\ ~isConflict(pi_name, gdc_names)
    /\ gdc_names' = gdc_names \cup {pi_name}
    /\ pi_values' = Append(pi_values, piInsertRow(pi_name, missing_pis[pi_i].val))
    /\ nextPi
    /\ UNCHANGED <<db, dbFaults, pi_name_remap, first_conflict, log>> /\ loopFrame

\* lines 412-424, 435-438: the operator's answer is empty
PiBundle ==
    /\ InLoop /\ isConflict(pi_name, gdc_names)
    /\ \E answer \in Answers :
         /\ strip(answer) = <<>>
         /\ logged("prompt", TRUE, <<pi_name, strip(answer)>>)
    /\ first_conflict' = FALSE
    /\ pi_name_remap' = dictPut(pi_name_remap, pi_name, pi_name)
    /\ nextPi
    /\ UNCHANGED <<db, dbFaults, gdc_names, pi_values>> /\ loopFrame

\* lines 412-424, 432-434, 439-443: the answer is a suffix
PiRename ==
    /\ InLoop /\ isConflict(pi_name, gdc_names)
    /\ \E answer \in Answers :
         LET user_input  == strip(answer)
             insert_name == pi_name \o <<" ", "(">> \o user_input \o <<")">>
         IN  /\ user_input # <<>> /\ ~startswith(user_input, <<"m", ".">>)
             /\ pi_name_remap' = dictPut(pi_name_remap, pi_name, insert_name)
             /\ gdc_names' = gdc_names \cup {insert_name}
             /\ pi_values' = Append(pi_values, piInsertRow(insert_name, missing_pis[pi_i].val))
             /\ logged("prompt", TRUE, <<pi_name, user_input>>)
    /\ first_conflict' = FALSE
    /\ nextPi
    /\ UNCHANGED <<db, dbFaults>> /\ loopFrame

\* UPDATE pi_info SET pi_institution = new_inst WHERE pi_name = name
updateInstitution(table, name, new_inst) ==
    [i \in DOMAIN table |->
       IF table[i].pi_name = name THEN [table[i] EXCEPT !.pi_institution = new_inst]
       ELSE table[i]]

\* lines 412-431: the answer is m.INST; the UPDATE is committed at once
PiMerge ==
    /\ InLoop /\ isConflict(pi_name, gdc_names)
    /\ \E answer \in Answers, fails \in MayFail :
         LET user_input == strip(answer)
             new_inst   == slice(user_input, 3, Len(user_input))
         IN  /\ startswith(user_input, <<"m", ".">>)
             /\ db' = queryCommitted(
                        [db EXCEPT !.pi_info = updateInstitution(@, pi_name, new_inst)], fails)
             /\ countFault(fails)
             /\ log' = log \o << [op |-> "prompt", ok |-> TRUE, arg |-> <<pi_name, user_input>>],
                                 [op |-> "UPDATE pi_info", ok |-> ~fails,
                                  arg |-> <<pi_name, new_inst>>] >>
             /\ IF queryRaises(fails)
                THEN pc' = "raised_db" /\ UNCHANGED <<pi_name_remap, pi_i>>
                ELSE pi_name_remap' = dictPut(pi_name_remap, pi_name, pi_name) /\ nextPi
    /\ first_conflict' = FALSE
    /\ UNCHANGED <<gdc_names, pi_values>> /\ loopFrame

\* PostgreSQL rejects INSERT ... VALUES with no row: a syntax error
emptyValues(values) == values = <<>>

\* lines 445-448
InsertPis ==
    /\ pc = "ins_pi"
    /\ \E fails \in MayFail :
         LET failed == fails \/ emptyValues(pi_values)
         IN  /\ db' = queryCommitted([db EXCEPT !.pi_info = @ \o pi_values], failed)
             /\ pc' = IF queryRaises(failed) THEN "raised_db" ELSE nextStage("ins_pi")
             /\ countFault(fails)
             /\ logged("INSERT pi_info", ~failed, <<>>)
    /\ UNCHANGED loopvars /\ loopFrame

(***************************************************************************)
(* Phase 2: the port stage (lines 450-469)                                 *)
(***************************************************************************)
\* lines 454-464: the row of one missing port
portInsertRow(port_name, vocab, countries) ==
    LET k            == rfindCommaSpace(port_name)
        r2r_name     == IF k > 0 THEN slice(port_name, 1, k - 1) ELSE port_name
        vocab_data   == dictGetOr(vocab, r2r_name, NoPort)
        country_code == lower(vocab_data.country_id3)
    IN  [port_name |-> port_name, r2r_id |-> vocab_data.r2r_id,
         latitude |-> vocab_data.latitude, longitude |-> vocab_data.longitude,
         port_country |-> dictGetOr(countries, country_code, upper(country_code))]

\* the orders in which a Python set may be iterated
Orderings(S) ==
    {q \in [1..Cardinality(S) -> S] : \A i, j \in 1..Cardinality(S) : q[i] = q[j] => i = j}

\* lines 451-469
InsertPorts ==
    /\ pc = "ins_port"
    /\ IF missing_ports # {}
       THEN \E order \in Orderings(missing_ports), fails \in MayFail :
              LET port_values == [i \in DOMAIN order |->
                                    portInsertRow(order[i], port_vocab, country_map)]
              IN  /\ db' = queryCommitted([db EXCEPT !.port_info = @ \o port_values], fails)
                  /\ pc' = IF queryRaises(fails) THEN "raised_db" ELSE nextStage("ins_port")
                  /\ countFault(fails)
                  /\ logged("INSERT port_info", ~fails, <<>>)
       ELSE pc' = nextStage("ins_port") /\ UNCHANGED <<db, dbFaults, log>>
    /\ UNCHANGED loopvars /\ loopFrame

(***************************************************************************)
(* Phase 2: foreign keys and the cruise stage (lines 471-545)              *)
(***************************************************************************)
\* lines 478-479 and 489
RECURSIVE buildIdToName(_, _)
buildIdToName(rows, map) ==
    IF rows = <<>> THEN map
    ELSE buildIdToName(Tail(rows), dictPut(map, Head(rows).id, Head(rows).pi_name))

\* lines 491-493, in the order of the dict
RECURSIVE applyRemap(_, _)
applyRemap(remap, map) ==
    IF remap = <<>> THEN map
    ELSE applyRemap(Tail(remap),
            IF dictHas(map, Head(remap).val)
            THEN dictPut(map, Head(remap).key, dictGet(map, Head(remap).val))
            ELSE map)

\* line 483
insertedNames(pis, remap) ==
    {dictGetOr(remap, pis[i].key, pis[i].key) : i \in DOMAIN pis}

\* lines 471-493
RequeryPis ==
    /\ pc = "q_pi_ids"
    /\ LET known == IF all_pis # <<>> THEN buildIdToName(all_gdc_pis, <<>>) ELSE <<>>
       IN  IF missing_pis # <<>>
           THEN \E fails \in MayFail :
                  LET inserted_names == insertedNames(missing_pis, pi_name_remap)
                      pi_results ==
                          querySelect(SelectSeq(pisWithId(db.pi_info),
                                                LAMBDA r : r.pi_name \in inserted_names), fails)
                  IN  /\ pi_id_map' = applyRemap(pi_name_remap,
                                                 buildPiMap(pi_results, gdc_pi_map))
                      /\ pi_id_to_name' = buildIdToName(pi_results, known)
                      /\ countFault(fails)
                      /\ logged("SELECT pi ids", ~fails, <<>>)
           ELSE /\ pi_id_map' = gdc_pi_map
                /\ pi_id_to_name' = known
                /\ UNCHANGED <<dbFaults, log>>
    /\ pc' = nextStage("q_pi_ids")
    /\ UNCHANGED <<db, port_id_map, summary, snapvars, matchvars, loopvars>>
    /\ p2Frame

\* lines 495-498
RequeryPorts ==
    /\ pc = "q_port_ids"
    /\ IF all_ports # {}
       THEN \E fails \in MayFail :
              LET port_results ==
                      querySelect(SelectSeq(
                          [i \in DOMAIN db.port_info |->
                             [id |-> i, port_name |-> db.port_info[i].port_name]],
                          LAMBDA r : r.port_name \in all_ports), fails)
              IN  /\ port_id_map' = [i \in DOMAIN port_results |->
                                       [key |-> port_results[i].port_name,
                                        val |-> port_results[i].id]]
                  /\ countFault(fails)
                  /\ logged("SELECT port ids", ~fails, <<>>)
       ELSE UNCHANGED <<port_id_map, dbFaults, log>>
    /\ pc' = nextStage("q_port_ids")
    /\ UNCHANGED <<db, pi_id_map, pi_id_to_name, summary, snapvars, matchvars, loopvars>>
    /\ p2Frame

\* line 517: the id found for the original name, else for the normalized
\* name, else NULL (0)
lookupPiId(raw_pi_name, id_map) ==
    IF raw_pi_name = <<>> THEN 0
    ELSE LET parsed == parse_pi_name(raw_pi_name)
             first  == dictGetOr(id_map, parsed.original, 0)
         IN  IF first # 0 THEN first ELSE dictGetOr(id_map, parsed.normalized, 0)

\* an empty port field is looked up like a name and gets the first id known
lookupPortId_emptyAsFirstPort(raw_port, vocab, id_map) ==
    IF id_map = <<>> THEN 0
    ELSE dictGetOr(id_map, normalize_port_name(raw_port, vocab), id_map[1].val)

\* lines 524-525
lookupPortId(raw_port, vocab, id_map) ==
    IF raw_port = <<>> THEN 0
    ELSE dictGetOr(id_map, normalize_port_name(raw_port, vocab), 0)

\* lines 502-539: the row of one missing cruise
cruiseInsertRow(cruise_id, cruise_data) ==
    LET pi_id == lookupPiId(cruise_data.chief_scientist, pi_id_map)
    IN  [cruise_id |-> cruise_id, vessel |-> cruise_data.vessel,
         pi_db_id |-> pi_id,
         pi_name |-> IF pi_id # 0 THEN dictGetOr(pi_id_to_name, pi_id, <<>>) ELSE <<>>,
         port_start_db_id |-> lookupPortId(cruise_data.depart_port, port_vocab, port_id_map),
         port_end_db_id |-> lookupPortId(cruise_data.arrive_port, port_vocab, port_id_map),
         port_start |-> normalize_port_name(cruise_data.depart_port, port_vocab),
         port_end |-> normalize_port_name(cruise_data.arrive_port, port_vocab)]

\* lines 500-545
InsertCruises ==
    /\ pc = "ins_cruise"
    /\ \E fails \in MayFail :
         LET cruise_values == [i \in DOMAIN missing_cruises_map |->
                                 cruiseInsertRow(missing_cruises_map[i].key,
                                                 missing_cruises_map[i].val)]
             failed == fails \/ emptyValues(cruise_values)
         IN  /\ db' = queryCommitted([db EXCEPT !.cruise_info = @ \o cruise_values], failed)
             /\ pc' = IF queryRaises(failed) THEN "raised_db" ELSE nextStage("ins_cruise")
             /\ summary' = IF queryRaises(failed) THEN summary
                           ELSE [pis |-> Len(missing_pis),
                                 ports |-> Cardinality(missing_ports),
                                 cruises |-> Len(missing_cruises_map)]
             /\ countFault(fails)
             /\ logged("INSERT cruise_info", ~failed, <<>>)
    /\ UNCHANGED <<snapvars, matchvars, loopvars, fkvars>>
    /\ p2Frame

(***************************************************************************)
(* The run                                                                 *)
(***************************************************************************)
runvars == <<r2r, flaky, db, db0, task, dbFaults, pc, interrupted, ci,
             fetched, phase2vars, log>>
vars == <<runvars, callvars>>

\* no normaliser is being called on its own
NoCall == [fn |-> "main"]

\* main() is started: the tasks are submitted, nothing is fetched or read yet
Started(registry, unreliable) ==
    /\ r2r = registry
    /\ flaky = unreliable
    /\ db0 = NotConnected
    /\ db = db0
    /\ task = [t \in Tasks |-> [attempt |-> 0, status |-> "running",
                                waits |-> <<>>, result |-> Pending]]
    /\ dbFaults = 0
    /\ pc = "wait" /\ interrupted = FALSE /\ ci = 1
    /\ all_r2r_cruises = <<>> /\ port_vocab = <<>>
    /\ person_vocab = <<>> /\ org_vocab = <<>>
    /\ gdc_by_vessel = [v \in VesselFulls |-> {}]
    /\ gdc_institutions = <<>> /\ country_map = <<>>
    /\ missing_cruises_map = <<>> /\ all_pis = <<>> /\ all_ports = {}
    /\ all_gdc_pis = <<>> /\ gdc_r2r_ids = {} /\ gdc_name_inst = {}
    /\ gdc_names = {} /\ gdc_pi_map = <<>> /\ gdc_pi_inst = <<>>
    /\ existing_pis = {} /\ existing_ports = {}
    /\ missing_pis = <<>> /\ missing_ports = {}
    /\ pi_name_remap = <<>> /\ first_conflict = TRUE /\ pi_values = <<>> /\ pi_i = 1
    /\ pi_id_map = <<>> /\ pi_id_to_name = <<>> /\ port_id_map = <<>>
    /\ summary = [pis |-> 0, ports |-> 0, cruises |-> 0]
    /\ log = <<>>

Init ==
    /\ \E registry \in Registries,
          unreliable \in {F \in SUBSET Tasks : Cardinality(F) <= MaxFlaky} :
          Started(registry, unreliable)
    /\ call = NoCall /\ returned = <<>>

FetchStep ==
    \/ \E v \in VesselShorts :
         \/ CruisesOk(v) \/ CruisesNoData(v) \/ CruisesNon200(v)
         \/ CruisesTimeout(v) \/ CruisesError(v)
    \/ \E t \in VocabTypes :
         \/ VocabOk(t) \/ VocabNoData(t) \/ VocabNon200(t) \/ VocabError(t)

Next ==
    \/ FetchStep
    \/ WaitReturns \/ Interrupt \/ CollectResult
    \/ Connect \/ SelectCruises \/ SelectInstitutions \/ SelectPortCountries
    \/ SelectPis \/ SelectExistingPorts
    \/ PiNoConflict \/ PiBundle \/ PiRename \/ PiMerge \/ InsertPis
    \/ InsertPorts \/ RequeryPis \/ RequeryPorts \/ InsertCruises

Spec == Init /\ [][Next]_vars

(***************************************************************************)
(* The normalisers called on their own: a name or a port name is passed    *)
(* to the function, and the function is applied again to what it returned  *)
(***************************************************************************)
\* the most words a first-name part holds
MaxWords == 3

\* words of a first-name part: initials with and without periods, short and
\* long words, a word holding a comma
Tokens ==
    { <<"J">>, <<"J", ".">>, <<"J", ".", ".">>, <<"J", "o">>, <<"J", "o", ".">>,
      <<"A", "n", "n">>, <<"a", ",", "b">> }
TokenSeqs == UNION {[1..n -> Tokens] : n \in 0..MaxWords}
Lasts == { <<"D", "o", "e">>, <<>> }
Separators == { <<",">>, <<",", " ">>, <<" ", ",", " ", " ">> }

\* chief-scientist strings: "Last<sep>words" and strings without a last name
FullNames ==
    {l \o sep \o joinWords(ws) : l \in Lasts, sep \in Separators, ws \in TokenSeqs}
      \cup {joinWords(ws) : ws \in {w \in TokenSeqs : Len(w) <= 2}}

PortNames == { <<>>, LJ, Ho, LJUSA, LJUSA \o <<",", " ", "U", "S", "A">> }
\* port vocabularies: none, the one of the endpoint, and one that also lists
\* the country-qualified name as a port of its own
PortVocabs ==
    { <<>>,
      buildLookup(PortVocabData, <<>>),
      dictPut(buildLookup(PortVocabData, <<>>), LJUSA,
              [latitude |-> 32, longitude |-> 117, r2r_id |-> 5,
               country_id3 |-> <<"u", "s", "a">>]) }

\* institution names: two words, in either case, with nothing, blanks, "&",
\* "and" or a punctuation mark between them
WordJoints ==
    { <<>>, <<" ">>, <<" ", " ">>, <<"&">>, <<" ", "&", " ">>,
      <<" ", "a", "n", "d", " ">>, <<"a", "n", "d">>,
      <<".">>, <<".", " ">>, <<"-">>, <<",">> }
InstitutionNames ==
    {a \o j \o m : a \in {<<"A">>, <<"a">>}, j \in WordJoints,
                   m \in {<<"M">>, <<"m", ".">>}} \cup {<<>>}

Calls ==
    {[fn |-> "parse_pi_name", full_name |-> n] : n \in FullNames}
      \cup {[fn |-> "normalize_port_name", port_name |-> n, port_vocab |-> v] :
               n \in PortNames, v \in PortVocabs}
      \cup {[fn |-> "normalize_institution", name |-> n, other |-> o] :
               n \in InstitutionNames, o \in InstitutionNames}

NormalizerInit ==
    /\ Started([v \in VesselShorts |-> <<>>], {})
    /\ call \in Calls
    /\ returned = <<>>

\* parse_pi_name(full_name)
ParseName ==
    /\ call.fn = "parse_pi_name" /\ returned = <<>>
    /\ returned' = <<parse_pi_name(call.full_name)>>
    /\ UNCHANGED <<call, runvars>>

\* parse_pi_name applied to the normalized name it returned
ParseNormalized ==
    /\ call.fn = "parse_pi_name" /\ Len(returned) = 1
    /\ returned' = Append(returned, parse_pi_name(returned[1].normalized))
    /\ UNCHANGED <<call, runvars>>

\* normalize_port_name(port_name, port_vocab)
NormalizePort ==
    /\ call.fn = "normalize_port_name" /\ returned = <<>>
    /\ returned' = <<normalize_port_name(call.port_name, call.port_vocab)>>
    /\ UNCHANGED <<call, runvars>>

\* normalize_port_name applied to the name it returned, same vocabulary
NormalizePortAgain ==
    /\ call.fn = "normalize_port_name" /\ Len(returned) = 1
    /\ returned' = Append(returned, normalize_port_name(returned[1], call.port_vocab))
    /\ UNCHANGED <<call, runvars>>

\* normalize_institution(name)
NormalizeInstitution ==
    /\ call.fn = "normalize_institution" /\ returned = <<>>
    /\ returned' = <<normalize_institution(call.name)>>
    /\ UNCHANGED <<call, runvars>>

\* normalize_institution of the name the first is compared with
NormalizeOther ==
    /\ call.fn = "normalize_institution" /\ Len(returned) = 1
    /\ returned' = Append(returned, normalize_institution(call.other))
    /\ UNCHANGED <<call, runvars>>

\* normalize_institution applied to the key it returned for the name
NormalizeInstitutionAgain ==
    /\ call.fn = "normalize_institution" /\ Len(returned) = 2
    /\ returned' = Append(returned, normalize_institution(returned[1]))
    /\ UNCHANGED <<call, runvars>>

NormalizerNext ==
    \/ ParseName \/ ParseNormalized
    \/ NormalizePort \/ NormalizePortAgain
    \/ NormalizeInstitution \/ NormalizeOther \/ NormalizeInstitutionAgain

NormalizerSpec == NormalizerInit /\ [][NormalizerNext]_vars

(***************************************************************************)
(* Vocabulary of the properties                                            *)
(***************************************************************************)
InsertOps == {"INSERT pi_info", "INSERT port_info", "INSERT cruise_info"}
WriteOps  == InsertOps \cup {"UPDATE pi_info"}

issued(op)    == \E i \in DOMAIN log : log[i].op = op
committed(op) == \E i \in DOMAIN log : log[i].op = op /\ log[i].ok
times(op)     == Cardinality({i \in DOMAIN log : log[i].op = op})

\* main() has computed the missing cruises (line 349 is behind it)
MissingKnown ==
    pc \in {"q_pis", "q_ports", "done_no_missing", "pi_loop", "ins_pi", "ins_port",
            "q_pi_ids", "q_port_ids", "ins_cruise", "done_inserted", "raised_db"}
\* main() is past the PI stage
PiStageDone ==
    pc \in {"ins_port", "q_pi_ids", "q_port_ids", "ins_cruise", "done_inserted"}
RunEnded ==
    pc \in {"done_no_cruises", "done_no_missing", "done_inserted", "raised_fetch", "raised_db"}

\* the comparison key of a PI row
piKey(row) ==
    <<parse_pi_name(row.pi_name).normalized, normalize_institution(row.pi_institution)>>

\* names the operator created with the rename-with-suffix answer
renamedNames ==
    {pi_name_remap[i].val :
       i \in {j \in DOMAIN pi_name_remap : pi_name_remap[j].val # pi_name_remap[j].key}}

\* the missing PIs whose raw name is the literal name of a PI of the snapshot
conflicting ==
    {missing_pis[i].key : i \in DOMAIN missing_pis}
      \cap {all_gdc_pis[i].pi_name : i \in DOMAIN all_gdc_pis}

promptsFor(n) == {i \in DOMAIN log : log[i].op = "prompt" /\ log[i].arg[1] = n}

\* the rows a table gained in this run
newRows(table0, table) == SubSeq(table, Len(table0) + 1, Len(table))

(***************************************************************************)
(* C1: the PI-insert batch holds at most one row per (normalized name,     *)
(* normalized institution), rows created by the rename-with-suffix answer  *)
(* apart; two raw names with one normalized key and one institution never  *)
(* give two rows.  The code keys all_pis by the raw name, so this fails.   *)
(***************************************************************************)
C1_OneRowPerNormalizedKey ==
    \A i, j \in DOMAIN pi_values :
       (i < j /\ pi_values[i].pi_name \notin renamedNames
              /\ pi_values[j].pi_name \notin renamedNames)
         => piKey(pi_values[i]) # piKey(pi_values[j])

(***************************************************************************)
(* C2: every cruise a vessel's fetch returned is in the missing set, under *)
(* that vessel, exactly when (cruise_id, vessel) is absent from the        *)
(* snapshot read at the start of phase 2.  The merge of line 269 keys the  *)
(* cruises by cruise_id alone, so this fails for a shared cruise_id.       *)
(***************************************************************************)
inMissingSet(cruise_id, full) ==
    \E m \in DOMAIN missing_cruises_map :
       /\ missing_cruises_map[m].key = cruise_id
       /\ missing_cruises_map[m].val.vessel = full

C2_MissingIffAbsentFromSnapshot ==
    MissingKnown =>
      \A v \in DOMAIN VESSELS :
         LET res == task[VESSELS[v].key].result
         IN  res.kind = "dict" =>
               \A k \in DOMAIN res.val :
                  inMissingSet(res.val[k].key, VESSELS[v].val)
                    <=> res.val[k].key \notin gdc_by_vessel[VESSELS[v].val]

(***************************************************************************)
(* C3: whatever the upstream failures, every fetch task ends with a result *)
(* (its data, or an empty one once the retries are used up) and the run    *)
(* does not abort in phase 1.  A cruise fetch that meets a status other    *)
(* than 200 on every attempt returns None, and main() raises on it.        *)
(***************************************************************************)
C3_FetchFailureNeverAbortsTheRun ==
    /\ \A t \in Tasks : task[t].status = "done" => task[t].result.kind = "dict"
    /\ pc # "raised_fetch"

(***************************************************************************)
(* C4: the stages of the insertion come in the order decisions, PI insert, *)
(* port insert, re-query of the ids, cruise insert; each is over before    *)
(* the next begins, each insert is issued once, and the cruise insert is   *)
(* issued only after the PI and port inserts were committed and the ids    *)
(* re-queried (a stage with nothing to do is skipped).                     *)
(***************************************************************************)
stageOf(op) ==
    CASE op \in {"prompt", "UPDATE pi_info"}            -> 1
      [] op = "INSERT pi_info"                          -> 2
      [] op = "INSERT port_info"                        -> 3
      [] op \in {"SELECT pi ids", "SELECT port ids"}    -> 4
      [] op = "INSERT cruise_info"                      -> 6
      [] OTHER                                          -> 0

C4_StagesInOrder ==
    /\ \A i, j \in DOMAIN log : i < j => stageOf(log[i].op) <= stageOf(log[j].op)
    /\ \A op \in InsertOps \cup {"SELECT pi ids", "SELECT port ids"} : times(op) <= 1
    /\ issued("INSERT pi_info") => \A n \in conflicting : promptsFor(n) # {}
    /\ issued("INSERT port_info") \/ issued("SELECT pi ids") \/ issued("SELECT port ids")
         => (missing_pis # <<>> => committed("INSERT pi_info"))
    /\ issued("INSERT cruise_info") =>
         /\ missing_pis # <<>> => committed("INSERT pi_info") /\ issued("SELECT pi ids")
         /\ missing_ports # {} => committed("INSERT port_info")
         /\ all_ports # {} => issued("SELECT port ids")
    /\ committed("INSERT cruise_info") =>
         Len(newRows(db0.cruise_info, db.cruise_info)) = Len(missing_cruises_map)

C4_Witness ==
    /\ pc = "done_inserted"
    /\ issued("prompt") /\ committed("INSERT pi_info") /\ committed("INSERT port_info")
    /\ issued("SELECT pi ids") /\ issued("SELECT port ids")
    /\ committed("INSERT cruise_info")

(***************************************************************************)
(* C5: every missing PI whose raw name is the literal name of a PI of the  *)
(* snapshot is put to the operator at most once, and exactly once, earlier *)
(* in the run, by the time any INSERT is issued.                           *)
(***************************************************************************)
C5_EachConflictPromptedOnceBeforeInserts ==
    \A n \in conflicting :
       /\ Cardinality(promptsFor(n)) <= 1
       /\ \A i \in DOMAIN log :
             log[i].op \in InsertOps =>
               \E k \in promptsFor(n) : k < i /\ Cardinality(promptsFor(n)) = 1

C5_Witness ==
    /\ conflicting # {}
    /\ \E i \in DOMAIN log : log[i].op \in InsertOps

(***************************************************************************)
(* C6: the answer decides the rows (empty: no row added, none changed; a   *)
(* suffix s: one new row "N (s)"; m.X: the rows named N get institution X, *)
(* no new row), and after any answers the run goes on to its inserts.      *)
(* When every missing PI is bundled or merged the PI insert has no row and *)
(* the database rejects it, so the run does not go on.                     *)
(***************************************************************************)
namedRows(table, n) == {i \in DOMAIN table : table[i].pi_name = n}

answerHonoured(n, user_input) ==
    LET variant == n \o <<" ", "(">> \o user_input \o <<")">>
        added   == newRows(db0.pi_info, db.pi_info)
    IN  IF user_input = <<>>
        THEN /\ namedRows(added, n) = {}
             /\ \A i \in namedRows(db0.pi_info, n) : db.pi_info[i] = db0.pi_info[i]
        ELSE IF startswith(user_input, <<"m", ".">>)
        THEN /\ namedRows(added, n) = {}
             /\ \A i \in namedRows(db0.pi_info, n) :
                   db.pi_info[i].pi_institution = slice(user_input, 3, Len(user_input))
        ELSE Cardinality(namedRows(added, variant)) = 1

C6_AnswerDecidesRowsAndRunGoesOn ==
    /\ pc = "raised_db" => dbFaults > 0
    /\ PiStageDone =>
         \A i \in DOMAIN log :
            log[i].op = "prompt" => answerHonoured(log[i].arg[1], log[i].arg[2])

(***************************************************************************)
(* C7: an inserted cruise with a chief scientist carries the id of the PI  *)
(* row that stands for that person: the row it matched when classified     *)
(* EXISTING, or the row named after it (inserted, renamed, bundled or      *)
(* merged).  Stated for the runs in which no statement failed.             *)
(***************************************************************************)
standsFor(chief_scientist) ==
    LET pi_data == dictGet(all_pis, chief_scientist)
    IN  IF chief_scientist \in existing_pis
        THEN {i \in DOMAIN db0.pi_info :
                \/ pi_data.r2r_id # 0 /\ db0.pi_info[i].pi_r2r_id = pi_data.r2r_id
                \/ piKey(db0.pi_info[i]) =
                     <<pi_data.normalized, normalize_institution(pi_data.institution)>>}
        ELSE namedRows(db.pi_info,
                       dictGetOr(pi_name_remap, chief_scientist, chief_scientist))

C7_CruiseCarriesThePersonsId ==
    (pc = "done_inserted" /\ dbFaults = 0) =>
      \A k \in DOMAIN missing_cruises_map :
         LET chief_scientist == missing_cruises_map[k].val.chief_scientist
             row == db.cruise_info[Len(db0.cruise_info) + k]
         IN  chief_scientist # <<>> => row.pi_db_id \in standsFor(chief_scientist)

(***************************************************************************)
(* C8: a run with no missing cruise, a run that fetched nothing included,  *)
(* issues no INSERT and no UPDATE and leaves the three tables as they were.*)
(***************************************************************************)
C8_NothingMissingNothingWritten ==
    (pc = "done_no_cruises" \/ (MissingKnown /\ missing_cruises_map = <<>>)) =>
      /\ db = db0
      /\ \A i \in DOMAIN log : log[i].op \notin WriteOps
      /\ pc \in {"done_no_cruises", "q_pis", "q_ports", "done_no_missing"}

C8_Witness ==
    /\ pc = "done_no_missing"
    /\ all_r2r_cruises # <<>>
    /\ db0.cruise_info # <<>>

(***************************************************************************)
(* C9: a failing PI, port or cruise insert is rolled back (the tables are  *)
(* as before the statement), the error leaves the run, and it is the last  *)
(* statement the run issues.                                               *)
(***************************************************************************)
failedInsert(e) == e.op \in InsertOps /\ ~e.ok

C9_FailedInsertAbortsTheRun ==
    /\ [][(Len(log') > Len(log) /\ failedInsert(log'[Len(log')]))
            => (db' = db /\ pc' = "raised_db")]_vars
    /\ [](\A i \in DOMAIN log :
            failedInsert(log[i]) => (i = Len(log) /\ pc = "raised_db"))

C9_Witness ==
    /\ pc = "raised_db"
    /\ committed("INSERT pi_info")
    /\ issued("INSERT port_info") /\ ~committed("INSERT port_info")

(***************************************************************************)
(* C10, as the claim has it: a run that ended has either committed its     *)
(* cruise rows or left no write of its own in the catalog.                 *)
(***************************************************************************)
C10_AllBatchesOrNothing ==
    RunEnded => (committed("INSERT cruise_info") \/ db = db0)

(***************************************************************************)
(* C10, amended: every statement is committed on its own.  The catalog     *)
(* holds exactly the statements that succeeded so far (merge updates, PI   *)
(* rows, port rows, cruise rows, in the order issued); a failed statement  *)
(* leaves nothing and ends the run before the cruise rows are written;     *)
(* only a run without a failed statement commits all its batches.          *)
(***************************************************************************)
RECURSIVE replayPis(_, _)
replayPis(entries, table) ==
    IF entries = <<>> THEN table
    ELSE LET e == Head(entries)
         IN  replayPis(Tail(entries),
                IF e.op = "UPDATE pi_info" /\ e.ok
                THEN updateInstitution(table, e.arg[1], e.arg[2])
                ELSE IF e.op = "INSERT pi_info" /\ e.ok THEN table \o pi_values
                ELSE table)

C10_CommittedStatementsStay ==
    /\ db.pi_info = replayPis(log, db0.pi_info)
    /\ SubSeq(db.port_info, 1, Len(db0.port_info)) = db0.port_info
    /\ Len(newRows(db0.port_info, db.port_info)) =
         (IF committed("INSERT port_info") THEN Cardinality(missing_ports) ELSE 0)
    /\ SubSeq(db.cruise_info, 1, Len(db0.cruise_info)) = db0.cruise_info
    /\ Len(newRows(db0.cruise_info, db.cruise_info)) =
         (IF committed("INSERT cruise_info") THEN Len(missing_cruises_map) ELSE 0)
    /\ pc = "raised_db" => ~committed("INSERT cruise_info")
    /\ pc = "done_inserted" =>
         /\ \A i \in DOMAIN log : log[i].op \in WriteOps => log[i].ok
         /\ committed("INSERT cruise_info")
         /\ missing_pis # <<>> => committed("INSERT pi_info")
         /\ missing_ports # {} => committed("INSERT port_info")

C10_Witness ==
    /\ pc = "raised_db"
    /\ committed("INSERT pi_info")
    /\ issued("INSERT port_info") /\ ~committed("INSERT port_info")
    /\ Len(db.pi_info) > Len(db0.pi_info)
    /\ db.port_info = db0.port_info

(***************************************************************************)
(* C11: once the PIs are classified, a candidate is EXISTING exactly when  *)
(* its external person id is non-empty and is the external id of a PI row  *)
(* of the snapshot, or its (normalized name, normalized institution) is    *)
(* that of a PI row of the snapshot; and no EXISTING PI has a row in the   *)
(* PI-insert batch, which holds rows of MISSING PIs only.                  *)
(***************************************************************************)
PisClassified == MissingKnown /\ pc # "q_pis"

matchesById(pi_data) ==
    /\ pi_data.r2r_id # 0
    /\ \E i \in DOMAIN all_gdc_pis : all_gdc_pis[i].pi_r2r_id = pi_data.r2r_id

matchesByTuple(pi_data) ==
    \E i \in DOMAIN all_gdc_pis :
       /\ parse_pi_name(all_gdc_pis[i].pi_name).normalized = pi_data.normalized
       /\ normalize_institution(all_gdc_pis[i].pi_institution)
            = normalize_institution(pi_data.institution)

C11_ExistingIffIdOrTupleMatch ==
    PisClassified =>
      /\ \A k \in DOMAIN all_pis :
            all_pis[k].key \in existing_pis
              <=> (matchesById(all_pis[k].val) \/ matchesByTuple(all_pis[k].val))
      /\ \A i \in DOMAIN pi_values :
            /\ pi_values[i].pi_name \notin existing_pis
            /\ \E k \in DOMAIN missing_pis :
                  /\ missing_pis[k].key \notin existing_pis
                  /\ pi_values[i].pi_name
                       = dictGetOr(pi_name_remap, missing_pis[k].key, missing_pis[k].key)
      /\ \A k \in DOMAIN missing_pis : missing_pis[k].key \notin existing_pis

\* an EXISTING PI whose raw name is no name of the snapshot, in a run that
\* inserted PI rows and finished
C11_Witness ==
    /\ pc = "done_inserted"
    /\ committed("INSERT pi_info")
    /\ \E n \in existing_pis :
          \A i \in DOMAIN all_gdc_pis : all_gdc_pis[i].pi_name # n

(***************************************************************************)
(* C12, as the claim has it: every decision prompt is for a MISSING PI     *)
(* whose raw name is the name of a PI row of the snapshot.                 *)
(***************************************************************************)
C12_PromptOnlyForSnapshotNames ==
    \A i \in DOMAIN log : log[i].op = "prompt" => log[i].arg[1] \in conflicting

(***************************************************************************)
(* C12, amended: every decision prompt is for a MISSING PI whose raw name  *)
(* is the name of a PI row of the snapshot or the name "N (s)" that an     *)
(* earlier answer of this run gave to a renamed PI; a MISSING PI whose     *)
(* name is neither is put in the batch under its own name, unprompted.     *)
(***************************************************************************)
snapshotNames == {all_gdc_pis[i].pi_name : i \in DOMAIN all_gdc_pis}

\* the names created by the suffix answers given before the i-th entry of the history
variantsBefore(i) ==
    {log[j].arg[1] \o <<" ", "(">> \o log[j].arg[2] \o <<")">> :
       j \in {h \in 1..(i - 1) :
                /\ log[h].op = "prompt"
                /\ log[h].arg[2] # <<>>
                /\ ~startswith(log[h].arg[2], <<"m", ".">>)}}

\* the missing PIs the loop of line 404 is done with
processedPis ==
    {k \in DOMAIN missing_pis : pc \notin {"q_pis", "q_ports"} /\ (k < pi_i \/ pc # "pi_loop")
                                /\ ~(pc = "raised_db" /\ k >= pi_i)}

C12_PromptOnlyForKnownNames ==
    /\ \A i \in DOMAIN log :
          log[i].op = "prompt" =>
            /\ \E k \in DOMAIN missing_pis : missing_pis[k].key = log[i].arg[1]
            /\ log[i].arg[1] \notin existing_pis
            /\ log[i].arg[1] \in snapshotNames \cup variantsBefore(i)
    /\ \A k \in processedPis :
          LET n == missing_pis[k].key
          IN  (n \notin snapshotNames \cup variantsBefore(Len(log) + 1)) =>
                /\ promptsFor(n) = {}
                /\ \E r \in DOMAIN pi_values : pi_values[r].pi_name = n

\* a prompt for a name that no row of the snapshot carries
C12_Witness ==
    /\ pc = "done_inserted"
    /\ \E i \in DOMAIN log :
          /\ log[i].op = "prompt"
          /\ log[i].arg[1] \notin snapshotNames
          /\ log[i].arg[1] \in variantsBefore(i)

(***************************************************************************)
(* C13: the catalog is neither connected to nor read before every fetch    *)
(* task is done and main() holds its result, whatever the order in which   *)
(* the tasks ran; an interrupt during the wait is dropped, the run goes on *)
(* to collect the results, and phase 2 works on all of them.               *)
(***************************************************************************)
InPhase1 == pc \in {"wait", "collect", "raised_fetch"}

\* the merge of the results of the vessel futures among the first n futures
RECURSIVE mergedResults(_)
mergedResults(n) ==
    IF n <= Cardinality(VocabTypes) THEN <<>>
    ELSE mergeVessel(mergedResults(n - 1), task[Futures[n]].result.val,
                     dictGet(VESSELS, Futures[n]))

C13_Phase2AfterAllResults ==
    /\ \A k \in 1..(ci - 1) :
          task[Futures[k]].status = "done" /\ task[Futures[k]].result.kind = "dict"
    /\ ci > 1 => port_vocab = task["port"].result.val
    /\ ci > 2 => person_vocab = task["person"].result.val
    /\ ci > 3 => org_vocab = task["organization"].result.val
    /\ all_r2r_cruises = mergedResults(ci - 1)
    /\ ~InPhase1 => (AllDone /\ ci = Len(Futures) + 1)
    /\ (InPhase1 \/ pc \in {"done_no_cruises", "connect"}) =>
         (log = <<>> /\ db = NotConnected /\ db0 = NotConnected)
    /\ interrupted => pc # "wait"

\* an interrupted run that went through phase 2 with the fetched cruises
C13_Witness ==
    /\ interrupted
    /\ pc = "done_inserted"
    /\ all_r2r_cruises # <<>> /\ port_vocab # <<>>

(***************************************************************************)
(* C14: every attempt of a fetch task that fails (timeout, other           *)
(* exception, status other than 200) is either followed by a sleep of      *)
(* 2 ** attempt (1, then 2) and another attempt, or is the third attempt   *)
(* and ends the task with an empty result; a task makes three attempts at  *)
(* most.  The status-other-than-200 paths do neither.                      *)
(***************************************************************************)
failedAttempt(t) ==
    IF t \in VocabTypes
    THEN VocabNon200(t) \/ VocabError(t)
    ELSE CruisesNon200(t) \/ CruisesTimeout(t) \/ CruisesError(t)

retriedWithBackoff(t) ==
    /\ task[t].attempt + 1 < MAX_RETRIES
    /\ task'[t].status = "running"
    /\ task'[t].attempt = task[t].attempt + 1
    /\ task'[t].waits = Append(task[t].waits, 2 ^ task[t].attempt)

gaveUpEmpty(t) ==
    /\ task[t].attempt + 1 = MAX_RETRIES
    /\ task'[t].status = "done"
    /\ task'[t].result = Dict(<<>>)

C14_FailuresRetriedWithBackoff ==
    [][\A t \in Tasks :
         /\ failedAttempt(t) => (retriedWithBackoff(t) \/ gaveUpEmpty(t))
         /\ task'[t].attempt < MAX_RETRIES]_vars

(***************************************************************************)
(* C15: whether or not a catalog read failed, the port rows the run adds   *)
(* have pairwise distinct display names, and neither they nor the names    *)
(* chosen for the batch are names of port rows the catalog already had.    *)
(* A failed SELECT on port_info reads as "no such port", so this fails.    *)
(***************************************************************************)
catalogPortNames == {db0.port_info[k].port_name : k \in DOMAIN db0.port_info}

C15_PortBatchDistinctAndNew ==
    LET added == newRows(db0.port_info, db.port_info)
    IN  /\ \A i, j \in DOMAIN added : i < j => added[i].port_name # added[j].port_name
        /\ \A i \in DOMAIN added : added[i].port_name \notin catalogPortNames
        /\ (PisClassified /\ pc # "q_ports") => missing_ports \cap catalogPortNames = {}

(***************************************************************************)
(* C16: the summary of a run that finished its inserts gives the number of *)
(* PI rows, of port rows and of cruise rows the run added to the catalog.  *)
(* The PI count printed is the number of MISSING PIs, bundled and merged   *)
(* ones included, so this fails.                                           *)
(***************************************************************************)
C16_SummaryCountsInsertedRows ==
    pc = "done_inserted" =>
      /\ summary.pis = Len(newRows(db0.pi_info, db.pi_info))
      /\ summary.ports = Len(newRows(db0.port_info, db.port_info))
      /\ summary.cruises = Len(newRows(db0.cruise_info, db.cruise_info))

(***************************************************************************)
(* C17: in a run that finished its inserts every fetched cruise that was   *)
(* missing has its row; the row's PI id and PI name are null when the      *)
(* chief-scientist field was empty, and its start (end) port id is null    *)
(* when the depart (arrive) port field was empty.  A run is aborted only   *)
(* by a statement the database refused, never by an empty field.           *)
(***************************************************************************)
nullWhereEmpty(cruise_data, row) ==
    /\ cruise_data.chief_scientist = <<>> => (row.pi_db_id = 0 /\ row.pi_name = <<>>)
    /\ cruise_data.depart_port = <<>> => (row.port_start_db_id = 0 /\ row.port_start = <<>>)
    /\ cruise_data.arrive_port = <<>> => (row.port_end_db_id = 0 /\ row.port_end = <<>>)

C17_EmptyFieldsGiveNullKeys ==
    /\ pc = "done_inserted" =>
         \A k \in DOMAIN all_r2r_cruises :
            LET cruise_id   == all_r2r_cruises[k].key
                cruise_data == all_r2r_cruises[k].val
                added       == newRows(db0.cruise_info, db.cruise_info)
            IN  cruise_id \notin gdc_by_vessel[cruise_data.vessel] =>
                  \E r \in DOMAIN added :
                     /\ added[r].cruise_id = cruise_id
                     /\ added[r].vessel = cruise_data.vessel
                     /\ nullWhereEmpty(cruise_data, added[r])
    /\ pc = "raised_db" =>
         \E i \in DOMAIN log : log[i].op \in WriteOps /\ ~log[i].ok

\* a finished run that inserted a cruise without chief scientist and
\* without depart port, next to a port it did resolve
C17_Witness ==
    /\ pc = "done_inserted"
    /\ \E r \in DOMAIN db.cruise_info :
          /\ r > Len(db0.cruise_info)
          /\ db.cruise_info[r].pi_db_id = 0
          /\ db.cruise_info[r].port_start_db_id = 0
          /\ db.cruise_info[r].port_end_db_id # 0
    /\ \E k \in DOMAIN all_r2r_cruises :
          /\ all_r2r_cruises[k].val.chief_scientist = <<>>
          /\ all_r2r_cruises[k].val.depart_port = <<>>

(***************************************************************************)
(* The name normaliser                                                     *)
(***************************************************************************)
\* the call is parse_pi_name and its result is in
NameParsed == call.fn = "parse_pi_name" /\ Len(returned) >= 1

\* the part of a "Last, First Second ..." string before its first comma, and
\* the tokens after it
lastOf(s)   == strip(slice(s, 1, find(s, ",") - 1))
tokensOf(s) == splitWords(slice(s, find(s, ",") + 1, Len(s)))

\* "Last, a" and "Last, a b"
lastFirst(l, a)     == l \o <<",", " ">> \o a
lastFirstTwo(l, a, b) == l \o <<",", " ">> \o a \o <<" ">> \o b

\* C18: parse_pi_name applied to the normalized form it returned gives that
\* same normalized form
C18_ParseIdempotentOnNormalized ==
    (call.fn = "parse_pi_name" /\ Len(returned) = 2)
        => returned[2].normalized = returned[1].normalized

\* a name the parser shortened by skipping a leading initial has been
\* normalized twice
C18_Witness ==
    /\ call.fn = "parse_pi_name" /\ Len(returned) = 2
    /\ Len(tokensOf(call.full_name)) = 3
    /\ Len(rstripChar(tokensOf(call.full_name)[1], ".")) = 1
    /\ Len(rstripChar(tokensOf(call.full_name)[2], ".")) = 1
    /\ returned[1].normalized # call.full_name

\* what the normalized form of a name of two or more tokens must be, when
\* a token of length n is an initial if isInitial says so and short if
\* isShort says so
keyIs(isInitial(_), isShort(_)) ==
    LET l  == lastOf(call.full_name)
        ws == tokensOf(call.full_name)
    IN  (NameParsed /\ find(call.full_name, ",") # 0 /\ Len(ws) >= 2)
          => returned[1].normalized =
               IF isInitial(ws[1]) THEN lastFirst(l, ws[2])
               ELSE IF isShort(ws[2]) THEN lastFirst(l, ws[1])
               ELSE lastFirstTwo(l, ws[1], ws[2])

\* a single character, optionally followed by one period
oneLetterOptionalPeriod(w) == Len(w) = 1 \/ (Len(w) = 2 /\ w[2] = ".")
twoCharactersOrFewer(w)    == Len(w) <= 2
\* the same lengths, taken after the trailing periods are removed
oneLetterWithoutPeriods(w)     == Len(rstripChar(w, ".")) = 1
twoOrFewerWithoutPeriods(w)    == Len(rstripChar(w, ".")) <= 2

\* C19 as stated: with a first token that is not a single letter, the second
\* token is dropped exactly when it is two characters or fewer and both are
\* kept otherwise; a first token that is a single letter, optionally
\* followed by a period, is skipped and the second token becomes the first
\* name
C19_SecondTokenDroppedIffTwoCharsOrFewer ==
    keyIs(oneLetterOptionalPeriod, twoCharactersOrFewer)

\* C19 amended: the same, with both lengths measured after the trailing
\* periods of the token are removed
C19_SecondTokenDroppedIffShortWithoutPeriods ==
    keyIs(oneLetterWithoutPeriods, twoOrFewerWithoutPeriods)

\* a name whose second token is short only once its period is removed has
\* been parsed, and the token was dropped
C19_Witness ==
    /\ NameParsed /\ find(call.full_name, ",") # 0
    /\ Len(tokensOf(call.full_name)) >= 2
    /\ ~oneLetterWithoutPeriods(tokensOf(call.full_name)[1])
    /\ ~twoCharactersOrFewer(tokensOf(call.full_name)[2])
    /\ twoOrFewerWithoutPeriods(tokensOf(call.full_name)[2])
    /\ returned[1].normalized =
         lastFirst(lastOf(call.full_name), tokensOf(call.full_name)[1])

(***************************************************************************)
(* The port normaliser                                                     *)
(***************************************************************************)
\* the vocabulary lists the port with a non-empty country code
knowsCountry(vocab, port_name) ==
    \E i \in DOMAIN vocab :
        vocab[i].key = port_name /\ vocab[i].val.country_id3 # <<>>
\* ", CODE" for the country code the vocabulary lists for the port
countrySuffix(vocab, port_name) ==
    <<",", " ">> \o upper(dictGet(vocab, port_name).country_id3)

\* the port name comes back unchanged without a known country and with one
\* ", CODE" suffix otherwise
PortSuffixedOnce ==
    (call.fn = "normalize_port_name" /\ Len(returned) >= 1)
        => returned[1] =
             IF knowsCountry(call.port_vocab, call.port_name)
             THEN call.port_name \o countrySuffix(call.port_vocab, call.port_name)
             ELSE call.port_name
\* normalizing the suffixed name again, with the same vocabulary, leaves it
\* as it is
SuffixedPortStable ==
    (/\ call.fn = "normalize_port_name" /\ Len(returned) = 2
     /\ knowsCountry(call.port_vocab, call.port_name))
        => returned[2] = returned[1]

\* C20: normalize_port_name returns the port name unchanged when the
\* vocabulary knows no country for it and with exactly one ", CODE" suffix
\* otherwise, and normalizing the suffixed result again returns it unchanged
C20_PortSuffixedOnceAndStable == PortSuffixedOnce /\ SuffixedPortStable

(***************************************************************************)
(* The institution normaliser                                              *)
(***************************************************************************)
\* the two names of the call have their keys
KeysCompared == call.fn = "normalize_institution" /\ Len(returned) >= 2

\* the name without its commas, periods and hyphens
RECURSIVE withoutMarks(_)
withoutMarks(s) ==
    IF s = <<>> THEN <<>>
    ELSE (IF Head(s) \in {",", ".", "-"} THEN <<>> ELSE <<Head(s)>>)
            \o withoutMarks(Tail(s))

\* the name with every run of blanks shortened to one blank
RECURSIVE singleBlanks(_)
singleBlanks(s) ==
    IF Len(s) <= 1 THEN s
    ELSE IF s[1] = " " /\ s[2] = " " THEN singleBlanks(Tail(s))
    ELSE <<s[1]>> \o singleBlanks(Tail(s))

\* two names that differ only in case, only in "&" against " and ", only in
\* commas, periods and hyphens, only in the length of their blank runs
differInCase(a, b)      == lower(a) = lower(b)
differInAmpersand(a, b) ==
    replaceChar(a, "&", <<" ", "a", "n", "d", " ">>)
        = replaceChar(b, "&", <<" ", "a", "n", "d", " ">>)
differInMarks(a, b)     == withoutMarks(a) = withoutMarks(b)
differInBlankRuns(a, b) == singleBlanks(a) = singleBlanks(b)

\* the key of a key is that key
InstitutionIdempotent ==
    (call.fn = "normalize_institution" /\ Len(returned) = 3)
        => returned[3] = returned[1]

\* the words of an institution name, in lower case: a blank, comma, period
\* or hyphen ends a word, and "&" is the word "and"
RECURSIVE scanWords(_, _, _)
scanWords(s, word, done) ==
    LET flushed == IF word = <<>> THEN done ELSE Append(done, word)
    IN  IF s = <<>> THEN flushed
        ELSE IF Head(s) \in {" ", ",", ".", "-"}
        THEN scanWords(Tail(s), <<>>, flushed)
        ELSE IF Head(s) = "&"
        THEN scanWords(Tail(s), <<>>, Append(flushed, <<"a", "n", "d">>))
        ELSE scanWords(Tail(s), Append(word, lowerChar(Head(s))), done)
institutionWords(s) == scanWords(s, <<>>, <<>>)

\* C21 as stated: normalize_institution is idempotent, and two names that
\* differ only in case, in "&" versus "and", in commas, periods and hyphens
\* or in whitespace runs have the same key
C21_KeyIgnoresCaseAmpersandMarksBlanks ==
    /\ InstitutionIdempotent
    /\ (KeysCompared /\ (\/ differInCase(call.name, call.other)
                          \/ differInAmpersand(call.name, call.other)
                          \/ differInMarks(call.name, call.other)
                          \/ differInBlankRuns(call.name, call.other)))
          => returned[1] = returned[2]

\* C21 amended: normalize_institution is idempotent, and two names made of
\* the same words have the same key, where a word ends at a blank, comma,
\* period or hyphen, "&" is the word "and", and case is ignored
C21_KeyIsTheWordsOfTheName ==
    /\ InstitutionIdempotent
    /\ (KeysCompared /\ institutionWords(call.name) = institutionWords(call.other))
          => returned[1] = returned[2]

\* a name with "&" and a differently written name with "and" between the
\* same words got one key, and that key was normalized again
C21_Witness ==
    /\ call.fn = "normalize_institution" /\ Len(returned) = 3
    /\ find(call.name, "&") # 0 /\ find(call.other, "&") = 0
    /\ ~differInCase(call.name, call.other)
    /\ institutionWords(call.name) = institutionWords(call.other)
    /\ returned[1] = returned[2] /\ returned[1] # call.name

(***************************************************************************)
(* The PI insert statement                                                 *)
(***************************************************************************)
\* C22: a PI insert that was sent carries at least one row: with every
\* missing PI bundled or merged no PI insert is sent, and the run is not
\* ended by one
C22_PiInsertCarriesRows ==
    /\ \A i \in DOMAIN log : log[i].op = "INSERT pi_info" => pi_values # <<>>
    /\ (pi_values = <<>> /\ log # <<>> /\ pc = "raised_db")
          => log[Len(log)].op # "INSERT pi_info"

(***************************************************************************)
(* The inserted port rows                                                  *)
(***************************************************************************)
\* the port names the cruises fetched from upstream carry
upstreamPorts ==
    {all_r2r_cruises[k].val.depart_port : k \in DOMAIN all_r2r_cruises}
      \cup {all_r2r_cruises[k].val.arrive_port : k \in DOMAIN all_r2r_cruises}

\* the row carries the attributes the vocabulary lists for the upstream name,
\* and empty ones when it lists none
carriesRecordOf(row, raw_port) ==
    LET rec == IF dictHas(port_vocab, raw_port)
               THEN dictGet(port_vocab, raw_port) ELSE NoPort
    IN  /\ row.latitude = rec.latitude
        /\ row.longitude = rec.longitude
        /\ row.r2r_id = rec.r2r_id
        /\ row.port_country = dictGetOr(country_map, lower(rec.country_id3),
                                        upper(rec.country_id3))

\* C23: every inserted port row carries the latitude, longitude, external id
\* and country of the vocabulary record of the upstream port name it was
\* derived from, and empty attributes only when there is no such record
C23_PortRowCarriesVocabularyRecord ==
    \A r \in DOMAIN newRows(db0.port_info, db.port_info) :
       LET row == newRows(db0.port_info, db.port_info)[r]
       IN  \E raw_port \in upstreamPorts \ {<<>>} :
              /\ normalize_port_name(raw_port, port_vocab) = row.port_name
              /\ carriesRecordOf(row, raw_port)

====
